---- MODULE Spec2Model ----
(***************************************************************************)
(* A model of scrape.js: the page loop of main(), the extractor, the index *)
(* merge, the stop policy and the files under outDir.                      *)
(*                                                                         *)
(* Text is a sequence of one-character strings, so that trimming,          *)
(* whitespace collapsing and the regular expressions of the source are     *)
(* computed character by character.  Timestamps are natural numbers: the   *)
(* ISO strings of nowIso() compare like the instants they denote.          *)
(***************************************************************************)
EXTENDS Integers, Sequences, FiniteSets, TLC

(* ------------------------------ bounds -------------------------------- *)

\* Number of pages loaded in one behaviour, over all runs of the scraper.
MaxFetch == 2
\* Wall-clock readings are 1..MaxTime.
MaxTime == 2
\* Longest href examined by the identity specification.
MaxLen == 3
\* Longest record sequence handed to the stop policy on its own.
MaxJobs == 3
\* Largest retries handed to fetchWithRetry on its own.
MaxRetries == 3

(* ------------------------------- text --------------------------------- *)

\* JavaScript's undefined: the value of a missing attribute.
Undefined == <<"undefined">>

\* JavaScript's null for posted_age_days.  null <= 1 is true in JavaScript
\* (null converts to 0), and so is -1 <= 1.
Null == -1

\* The characters \s matches and String.prototype.trim removes.
WS == {" ", "\t", "\n"}

Digits == {"0", "1", "2", "3", "4", "5", "6", "7", "8", "9"}

DigitVal(c) ==
  CASE c = "0" -> 0 [] c = "1" -> 1 [] c = "2" -> 2 [] c = "3" -> 3
    [] c = "4" -> 4 [] c = "5" -> 5 [] c = "6" -> 6 [] c = "7" -> 7
    [] c = "8" -> 8 [] c = "9" -> 9

RECURSIVE TrimStart(_)
TrimStart(s) ==
  IF s # <<>> /\ Head(s) \in WS THEN TrimStart(Tail(s)) ELSE s

RECURSIVE TrimEnd(_)
TrimEnd(s) ==
  IF s # <<>> /\ s[Len(s)] \in WS THEN TrimEnd(SubSeq(s, 1, Len(s) - 1)) ELSE s

\* String.prototype.trim
trim(s) == TrimEnd(TrimStart(s))

\* s.replace(/\s+/g, " ")
RECURSIVE CollapseSpace(_)
CollapseSpace(s) ==
  IF s = <<>> THEN <<>>
  ELSE IF Head(s) \in WS THEN <<" ">> \o CollapseSpace(TrimStart(s))
  ELSE <<Head(s)>> \o CollapseSpace(Tail(s))

\* A normalizeSpace that trims without collapsing the whitespace inside.
normalizeSpaceTrimOnly(s) == trim(IF s = Undefined THEN <<>> ELSE s)

normalizeSpace(s) == trim(CollapseSpace(IF s = Undefined THEN <<>> ELSE s))

\* jobUrl?.trim() || ""
stableIdFromJobUrl(jobUrl) == IF jobUrl = Undefined THEN <<>> ELSE trim(jobUrl)

UpperCase ==
  <<"A", "B", "C", "D", "E", "F", "G", "H", "I", "J", "K", "L", "M",
    "N", "O", "P", "Q", "R", "S", "T", "U", "V", "W", "X", "Y", "Z">>

LowerCase ==
  <<"a", "b", "c", "d", "e", "f", "g", "h", "i", "j", "k", "l", "m",
    "n", "o", "p", "q", "r", "s", "t", "u", "v", "w", "x", "y", "z">>

LowerChar(c) ==
  IF \E k \in DOMAIN UpperCase : UpperCase[k] = c
  THEN LowerCase[CHOOSE k \in DOMAIN UpperCase : UpperCase[k] = c]
  ELSE c

toLowerCase(s) == [k \in 1..Len(s) |-> LowerChar(s[k])]

\* t.includes(w)
includes(t, w) ==
  \E k \in 1..(Len(t) - Len(w) + 1) : SubSeq(t, k, k + Len(w) - 1) = w

\* The first position at or after k whose character is not in S.
RECURSIVE SkipWhile(_, _, _)
SkipWhile(t, k, S) ==
  IF k <= Len(t) /\ t[k] \in S THEN SkipWhile(t, k + 1, S) ELSE k

StartsAt(t, k, w) ==
  k + Len(w) - 1 <= Len(t) /\ SubSeq(t, k, k + Len(w) - 1) = w

\* /(\d+)\s*w/ matches t beginning at position k.  \d+ is greedy and the
\* word begins with a letter, so the group is the whole run of digits.
MatchAt(t, k, w) ==
  t[k] \in Digits /\ StartsAt(t, SkipWhile(t, SkipWhile(t, k, Digits), WS), w)

Matches(t, w) == {k \in 1..Len(t) : MatchAt(t, k, w)}

SetMin(S) == CHOOSE x \in S : \A y \in S : x <= y

\* Number(ds) for a run of decimal digits.
RECURSIVE NumberOf(_)
NumberOf(ds) ==
  IF ds = <<>> THEN 0
  ELSE 10 * NumberOf(SubSeq(ds, 1, Len(ds) - 1)) + DigitVal(ds[Len(ds)])

wToday == <<"t", "o", "d", "a", "y">>
wDay == <<"d", "a", "y">>
wHour == <<"h", "o", "u", "r">>
wMinute == <<"m", "i", "n", "u", "t", "e">>

\* An age parser that tries the hour rule before the day rule.
parsePostedAgeHoursFirst(postedText) ==
  LET t == toLowerCase(normalizeSpace(postedText))
  IN IF t = <<>> THEN Null
     ELSE IF includes(t, wToday) THEN 0
     ELSE IF Matches(t, wHour) # {} THEN 0
     ELSE IF Matches(t, wDay) # {}
       THEN LET k == SetMin(Matches(t, wDay))
            IN NumberOf(SubSeq(t, k, SkipWhile(t, k, Digits) - 1))
     ELSE IF Matches(t, wMinute) # {} THEN 0
     ELSE Null

parsePostedAgeDays(postedText) ==
  LET t == toLowerCase(normalizeSpace(postedText))
  IN IF t = <<>> THEN Null
     ELSE IF includes(t, wToday) THEN 0
     ELSE IF Matches(t, wDay) # {}
       THEN LET k == SetMin(Matches(t, wDay))
            IN NumberOf(SubSeq(t, k, SkipWhile(t, k, Digits) - 1))
     ELSE IF Matches(t, wHour) # {} THEN 0
     ELSE IF Matches(t, wMinute) # {} THEN 0
     ELSE Null

\* The characters \w matches.
WordChars ==
  {UpperCase[k] : k \in DOMAIN UpperCase} \cup {LowerCase[k] : k \in DOMAIN LowerCase}
    \cup Digits \cup {"_"}

\* s ends with w, letter case apart.
EndsWithNoCase(s, w) ==
  Len(s) >= Len(w) /\ toLowerCase(SubSeq(s, Len(s) - Len(w) + 1, Len(s))) = w

DropLast(s, n) == SubSeq(s, 1, Len(s) - n)

wNew == <<"n", "e", "w">>
wTagsNew == <<"t", "a", "g", "s", ".", "n", "e", "w">>
wWhatTheyDo ==
  <<"w", "h", "a", "t", " ", "t", "h", "e", "y", " ", "d", "o", ":">>

\* s.replace(/\bNew\b$/i, ""): a final "New" that begins a word.
StripNewWord(s) ==
  IF /\ EndsWithNoCase(s, wNew)
     /\ (Len(s) = Len(wNew) \/ s[Len(s) - Len(wNew)] \notin WordChars)
  THEN DropLast(s, Len(wNew)) ELSE s

\* s.replace(/tags\.new$/i, "")
StripTagsNew(s) ==
  IF EndsWithNoCase(s, wTagsNew) THEN DropLast(s, Len(wTagsNew)) ELSE s

stripTrailingNew(s) ==
  normalizeSpace(StripTagsNew(StripNewWord(IF s = Undefined THEN <<>> ELSE s)))

\* s.replace(/what they do:\s*/i, ""): the first occurrence goes, with the
\* whitespace that follows it.
StripWhatTheyDo(s) ==
  LET t == toLowerCase(s)
      at == {k \in 1..Len(t) : StartsAt(t, k, wWhatTheyDo)}
  IN IF at = {} THEN s
     ELSE LET k == SetMin(at)
          IN SubSeq(s, 1, k - 1)
               \o SubSeq(s, SkipWhile(s, k + Len(wWhatTheyDo), WS), Len(s))

\* list.map((s) => normalizeSpace(s)).filter(Boolean)
RECURSIVE NormalizeTags(_)
NormalizeTags(list) ==
  IF list = <<>> THEN <<>>
  ELSE (IF normalizeSpace(Head(list)) = <<>> THEN <<>>
        ELSE <<normalizeSpace(Head(list))>>)
       \o NormalizeTags(Tail(list))

(* ----------------------------- extractor ------------------------------ *)

\* A listing card, as what the selectors read from it.  An attribute of an
\* element the card does not have is Undefined, the text of such an element
\* is empty (cheerio's .text() of an empty selection).
NoCard ==
  [href |-> Undefined,      \* href of the anchor that holds the job title
   company |-> <<>>,        \* text of the company anchor
   site |-> Undefined,      \* href of the company anchor
   title |-> <<>>,          \* text of #job-title
   apply |-> Undefined,     \* href of a#apply-button
   location |-> <<>>,       \* text beside the map marker
   experience |-> <<>>,     \* text beside the briefcase
   posted |-> <<>>,         \* text beside the clock
   logo |-> Undefined,      \* src of the first img
   size |-> <<>>,           \* text of #company-size-tags
   funding |-> <<>>,        \* texts of the #funding-tags elements
   what |-> <<>>,           \* text around the "What they do" header
   industries |-> <<>>]     \* texts of the #industry-tags elements

\* { ...a, ...b }
Spread(a, b) ==
  [f \in DOMAIN a \cup DOMAIN b |-> IF f \in DOMAIN b THEN b[f] ELSE a[f]]

\* A card with a job link, an apply button, a location and a posted text,
\* and nothing else.
Card(h, a, l, p) ==
  Spread(NoCard, [href |-> h, apply |-> a, location |-> l, posted |-> p])

\* A job whose logo is the attribute as read, without normalizeSpace.
JobOfCardRawLogo(card, sourceUrl) ==
  LET jobUrl == normalizeSpace(card.href)
  IN [id |-> stableIdFromJobUrl(jobUrl),
      company |-> stripTrailingNew(card.company),
      company_site |-> normalizeSpace(card.site),
      job_title |-> stripTrailingNew(card.title),
      job_url |-> jobUrl,
      apply_url |-> IF normalizeSpace(card.apply) # <<>>
                    THEN normalizeSpace(card.apply) ELSE jobUrl,
      location |-> normalizeSpace(card.location),
      experience |-> normalizeSpace(card.experience),
      posted |-> normalizeSpace(card.posted),
      posted_age_days |-> parsePostedAgeDays(normalizeSpace(card.posted)),
      logo |-> card.logo,
      company_size |-> normalizeSpace(card.size),
      funding_tags |-> NormalizeTags(card.funding),
      what_they_do |-> normalizeSpace(StripWhatTheyDo(card.what)),
      industries |-> NormalizeTags(card.industries),
      source |-> sourceUrl]

JobOfCard(card, sourceUrl) ==
  LET jobUrl == normalizeSpace(card.href)
  IN [id |-> stableIdFromJobUrl(jobUrl),
      company |-> stripTrailingNew(card.company),
      company_site |-> normalizeSpace(card.site),
      job_title |-> stripTrailingNew(card.title),
      job_url |-> jobUrl,
      apply_url |-> IF normalizeSpace(card.apply) # <<>>
                    THEN normalizeSpace(card.apply) ELSE jobUrl,
      location |-> normalizeSpace(card.location),
      experience |-> normalizeSpace(card.experience),
      posted |-> normalizeSpace(card.posted),
      posted_age_days |-> parsePostedAgeDays(normalizeSpace(card.posted)),
      logo |-> normalizeSpace(card.logo),
      company_size |-> normalizeSpace(card.size),
      funding_tags |-> NormalizeTags(card.funding),
      what_they_do |-> normalizeSpace(StripWhatTheyDo(card.what)),
      industries |-> NormalizeTags(card.industries),
      source |-> sourceUrl]

\* cards.each: a card whose job link is missing or blank is skipped.
RECURSIVE CardsToJobs(_, _)
CardsToJobs(cards, sourceUrl) ==
  IF cards = <<>> THEN <<>>
  ELSE (IF normalizeSpace(Head(cards).href) = <<>> THEN <<>>
        ELSE <<JobOfCard(Head(cards), sourceUrl)>>)
       \o CardsToJobs(Tail(cards), sourceUrl)

\* A filter that keeps the last record of an id instead of the first.
RECURSIVE DedupeByIdLastWins(_, _)
DedupeByIdLastWins(jobs, seen) ==
  IF jobs = <<>> THEN <<>>
  ELSE LET j == Head(jobs)
       IN IF j.id # <<>> /\ \A k \in 2..Len(jobs) : jobs[k].id # j.id
          THEN <<j>> \o DedupeByIdLastWins(Tail(jobs), seen)
          ELSE DedupeByIdLastWins(Tail(jobs), seen)

\* jobs.filter((j) => j.id && !seen.has(j.id) && seen.add(j.id))
RECURSIVE DedupeById(_, _)
DedupeById(jobs, seen) ==
  IF jobs = <<>> THEN <<>>
  ELSE LET j == Head(jobs)
       IN IF j.id # <<>> /\ j.id \notin seen
          THEN <<j>> \o DedupeById(Tail(jobs), seen \cup {j.id})
          ELSE DedupeById(Tail(jobs), seen)

\* An extractor that keeps the cards without a job link.
RECURSIVE extractKeepingAll(_, _)
extractKeepingAll(html, sourceUrl) ==
  IF html = <<>> THEN <<>>
  ELSE <<JobOfCard(Head(html), sourceUrl)>> \o extractKeepingAll(Tail(html), sourceUrl)

extractJobsFromHtml(html, sourceUrl) ==
  DedupeById(CardsToJobs(html, sourceUrl), {})

(* ------------------------------- index -------------------------------- *)

\* A JSON value as main() holds it: an object with its properties, an array
\* (whose named properties JSON.stringify does not write), or null.
EmptyProps == [k \in {} |-> 0]
EmptyObject == [kind |-> "object", props |-> EmptyProps]
EmptyArray == [kind |-> "array", props |-> EmptyProps]
JsonNull == [kind |-> "null", props |-> EmptyProps]

SetProp(f, k, v) == [x \in DOMAIN f \cup {k} |-> IF x = k THEN v ELSE f[x]]

\* An upsert whose merge spreads the old entry over the new observation.
upsertIndexOldWins(indexObj, job, ts) ==
  IF job.id \notin DOMAIN indexObj.props
  THEN [index |-> [indexObj EXCEPT !.props =
                     SetProp(@, job.id,
                             Spread(job, [created_at |-> ts, updated_at |-> ts]))],
        isNew |-> TRUE, changed |-> TRUE]
  ELSE LET existing == indexObj.props[job.id]
       IN [index |-> [indexObj EXCEPT !.props =
                        SetProp(@, job.id,
                                Spread(Spread(job, existing),
                                       [created_at |-> existing.created_at,
                                        updated_at |-> ts]))],
           isNew |-> FALSE, changed |-> TRUE]

\* An upsert whose insert replaces the index by the one new entry.
upsertIndexClobber(indexObj, job, ts) ==
  IF job.id \notin DOMAIN indexObj.props
  THEN [index |-> [indexObj EXCEPT !.props =
                     SetProp(EmptyProps, job.id,
                             Spread(job, [created_at |-> ts, updated_at |-> ts]))],
        isNew |-> TRUE, changed |-> TRUE]
  ELSE LET existing == indexObj.props[job.id]
       IN [index |-> [indexObj EXCEPT !.props =
                        SetProp(@, job.id,
                                Spread(Spread(existing, job),
                                       [created_at |-> existing.created_at,
                                        updated_at |-> ts]))],
           isNew |-> FALSE, changed |-> TRUE]

\* An upsert whose merge leaves updated_at as it was.
upsertIndexStaleUpdate(indexObj, job, ts) ==
  IF job.id \notin DOMAIN indexObj.props
  THEN [index |-> [indexObj EXCEPT !.props =
                     SetProp(@, job.id,
                             Spread(job, [created_at |-> ts, updated_at |-> ts]))],
        isNew |-> TRUE, changed |-> TRUE]
  ELSE LET existing == indexObj.props[job.id]
       IN [index |-> [indexObj EXCEPT !.props =
                        SetProp(@, job.id,
                                Spread(Spread(existing, job),
                                       [created_at |-> existing.created_at,
                                        updated_at |-> existing.updated_at]))],
           isNew |-> FALSE, changed |-> TRUE]

upsertIndex(indexObj, job, ts) ==
  IF job.id \notin DOMAIN indexObj.props
  THEN [index |-> [indexObj EXCEPT !.props =
                     SetProp(@, job.id,
                             Spread(job, [created_at |-> ts, updated_at |-> ts]))],
        isNew |-> TRUE, changed |-> TRUE]
  ELSE LET existing == indexObj.props[job.id]
       IN [index |-> [indexObj EXCEPT !.props =
                        SetProp(@, job.id,
                                Spread(Spread(existing, job),
                                       [created_at |-> existing.created_at,
                                        updated_at |-> ts]))],
           isNew |-> FALSE, changed |-> TRUE]

(* ---------------------------- stop policy ----------------------------- *)

KnownAges(jobs) ==
  {jobs[k].posted_age_days : k \in {n \in 1..Len(jobs) : jobs[n].posted_age_days # Null}}

SetMax(S) == CHOOSE x \in S : \A y \in S : y <= x

\* A stop policy without the typeof test: null <= 1 counts as fresh.
computeStopNullFresh(mode, jobs, maxAgeDays) ==
  IF Len(jobs) = 0 THEN [stop |-> TRUE, reason |-> <<"no_cards">>]
  ELSE IF mode = "today"
    THEN IF ~ \E k \in 1..Len(jobs) : jobs[k].posted_age_days <= 1
         THEN [stop |-> TRUE, reason |-> <<"no_recent_<=_1_day_on_page">>]
         ELSE [stop |-> FALSE, reason |-> <<>>]
  ELSE IF KnownAges(jobs) = {} THEN [stop |-> FALSE, reason |-> <<>>]
  ELSE IF SetMax(KnownAges(jobs)) > maxAgeDays
    THEN [stop |-> TRUE, reason |-> <<"older_than_", maxAgeDays>>]
  ELSE [stop |-> FALSE, reason |-> <<>>]

\* A stop policy that stops at the threshold itself (>= for >).
computeStopAtThreshold(mode, jobs, maxAgeDays) ==
  IF Len(jobs) = 0 THEN [stop |-> TRUE, reason |-> <<"no_cards">>]
  ELSE IF mode = "today"
    THEN IF ~ \E k \in 1..Len(jobs) :
                jobs[k].posted_age_days # Null /\ jobs[k].posted_age_days <= 1
         THEN [stop |-> TRUE, reason |-> <<"no_recent_<=_1_day_on_page">>]
         ELSE [stop |-> FALSE, reason |-> <<>>]
  ELSE IF KnownAges(jobs) = {} THEN [stop |-> FALSE, reason |-> <<>>]
  ELSE IF SetMax(KnownAges(jobs)) >= maxAgeDays
    THEN [stop |-> TRUE, reason |-> <<"older_than_", maxAgeDays>>]
  ELSE [stop |-> FALSE, reason |-> <<>>]

\* A stop policy that tests for the empty page in mode "today" only.
computeStopEmptyTodayOnly(mode, jobs, maxAgeDays) ==
  IF mode = "today"
    THEN IF Len(jobs) = 0 THEN [stop |-> TRUE, reason |-> <<"no_cards">>]
         ELSE IF ~ \E k \in 1..Len(jobs) :
                jobs[k].posted_age_days # Null /\ jobs[k].posted_age_days <= 1
         THEN [stop |-> TRUE, reason |-> <<"no_recent_<=_1_day_on_page">>]
         ELSE [stop |-> FALSE, reason |-> <<>>]
  ELSE IF KnownAges(jobs) = {} THEN [stop |-> FALSE, reason |-> <<>>]
  ELSE IF SetMax(KnownAges(jobs)) > maxAgeDays
    THEN [stop |-> TRUE, reason |-> <<"older_than_", maxAgeDays>>]
  ELSE [stop |-> FALSE, reason |-> <<>>]

computeStopForMode(mode, jobs, maxAgeDays) ==
  IF Len(jobs) = 0 THEN [stop |-> TRUE, reason |-> <<"no_cards">>]
  ELSE IF mode = "today"
    THEN IF ~ \E k \in 1..Len(jobs) :
                jobs[k].posted_age_days # Null /\ jobs[k].posted_age_days <= 1
         THEN [stop |-> TRUE, reason |-> <<"no_recent_<=_1_day_on_page">>]
         ELSE [stop |-> FALSE, reason |-> <<>>]
  ELSE IF KnownAges(jobs) = {} THEN [stop |-> FALSE, reason |-> <<>>]
  ELSE IF SetMax(KnownAges(jobs)) > maxAgeDays
    THEN [stop |-> TRUE, reason |-> <<"older_than_", maxAgeDays>>]
  ELSE [stop |-> FALSE, reason |-> <<>>]

(* ------------------------------- files -------------------------------- *)

NoFile == [kind |-> "missing", val |-> EmptyObject]
BlankFile == [kind |-> "blank", val |-> EmptyObject]
\* A file that JSON.parse rejects, a partly written one included.
GarbageFile == [kind |-> "garbage", val |-> EmptyObject]
JsonFile(v) == [kind |-> "json", val |-> v]

\* JSON.stringify(obj, null, 2): the named properties of an array are not
\* written.
Stringify(obj) ==
  JsonFile(IF obj.kind = "object" THEN obj ELSE [obj EXCEPT !.props = EmptyProps])

\* A loader that always starts from the fallback.
readJsonNever(file, fallback) == fallback

readJsonIfExists(file, fallback) ==
  IF file.kind = "json" THEN file.val ELSE fallback

SeqsUpTo(S, n) == UNION {[1..k -> S] : k \in 0..n}

(* -------------------------------- csv --------------------------------- *)

DigitSeq == <<"0", "1", "2", "3", "4", "5", "6", "7", "8", "9">>

\* String(n) for a number that is not negative.
RECURSIVE NumberToString(_)
NumberToString(n) ==
  IF n < 10 THEN <<DigitSeq[n + 1]>>
  ELSE NumberToString(n \div 10) \o <<DigitSeq[(n % 10) + 1]>>

\* s.replace(/"/g, '""')
RECURSIVE DoubleQuotes(_)
DoubleQuotes(s) ==
  IF s = <<>> THEN <<>>
  ELSE (IF Head(s) = "\"" THEN <<"\"", "\"">> ELSE <<Head(s)>>) \o DoubleQuotes(Tail(s))

\* An escape that wraps the cell without doubling the quotes inside it.
csvEscapeNoDoubling(s) ==
  IF \E k \in 1..Len(s) : s[k] \in {"\"", ",", "\n"}
  THEN <<"\"">> \o s \o <<"\"">>
  ELSE s

\* csvEscape, on the text String(v ?? "") gives.
csvEscape(s) ==
  IF \E k \in 1..Len(s) : s[k] \in {"\"", ",", "\n"}
  THEN <<"\"">> \o DoubleQuotes(s) \o <<"\"">>
  ELSE s

\* The characters of a string inside JSON.stringify's output.
RECURSIVE JsonChars(_)
JsonChars(s) ==
  IF s = <<>> THEN <<>>
  ELSE (CASE Head(s) = "\"" -> <<"\\", "\"">>
          [] Head(s) = "\\" -> <<"\\", "\\">>
          [] Head(s) = "\n" -> <<"\\", "n">>
          [] Head(s) = "\t" -> <<"\\", "t">>
          [] OTHER -> <<Head(s)>>)
       \o JsonChars(Tail(s))

\* list.join(sep)
RECURSIVE Join(_, _)
Join(list, sep) ==
  IF list = <<>> THEN <<>>
  ELSE IF Len(list) = 1 THEN list[1]
  ELSE list[1] \o sep \o Join(Tail(list), sep)

\* JSON.stringify of an array of strings.
JsonStringifyList(list) ==
  <<"[">>
    \o Join([k \in 1..Len(list) |-> <<"\"">> \o JsonChars(list[k]) \o <<"\"">>], <<",">>)
    \o <<"]">>

\* The columns of jobs.csv.  A column name is one symbol of the text: none
\* holds a separator, a quote or a line break.
CsvHeader ==
  <<"id", "company", "job_title", "job_url", "apply_url", "company_site",
    "location", "experience", "posted", "posted_age_days", "company_size",
    "funding_tags", "industries", "what_they_do", "logo", "created_at",
    "updated_at", "source">>

ListColumns == {"funding_tags", "industries"}
NumberColumns == {"posted_age_days", "created_at", "updated_at"}

\* What csvEscape is handed for column k of entry r, as String() shows it:
\* JSON.stringify(r[k] ?? []) for the list columns, r[k] ?? "" otherwise.
CellText(r, k) ==
  IF k \in ListColumns
    THEN JsonStringifyList(IF k \in DOMAIN r THEN r[k] ELSE <<>>)
  ELSE IF k \notin DOMAIN r THEN <<>>
  ELSE IF k \in NumberColumns
    THEN (IF r[k] = Null THEN <<>> ELSE NumberToString(r[k]))
  ELSE IF r[k] = Undefined THEN <<>>
  ELSE r[k]

\* One line of jobs.csv.
CsvRow(r) ==
  Join([k \in 1..Len(CsvHeader) |-> csvEscape(CellText(r, CsvHeader[k]))], <<",">>)

\* Object.values(index)
Values(obj) == {obj.props[k] : k \in DOMAIN obj.props}

\* buildCsvRowsFromIndex: the header line and one line for each entry.
buildCsvRowsFromIndex(indexObj) ==
  [header |-> Join([k \in 1..Len(CsvHeader) |-> <<CsvHeader[k]>>], <<",">>),
   rows |-> {CsvRow(r) : r \in Values(indexObj)}]

(* --------------------------- configuration --------------------------- *)

\* DEFAULTS.maxAgeDays
DefaultMaxAgeDays == 180
\* DEFAULTS.startPage
DefaultStartPage == 1
\* DEFAULTS.retries
DefaultRetries == 3
\* DEFAULTS.retryBackoffMs
DefaultRetryBackoffMs == 800
\* DEFAULTS.baseUrl
BaseUrl == <<"s">>

\* parseArgs: the mode is "today" or "all", anything else is rejected
\* before main() does anything.  No switch sets retries or retryBackoffMs:
\* main() always hands fetchWithRetry the defaults.
ArgSets ==
  {[mode |-> m, maxAgeDays |-> DefaultMaxAgeDays, startPage |-> DefaultStartPage,
    baseUrl |-> BaseUrl, retries |-> DefaultRetries,
    retryBackoffMs |-> DefaultRetryBackoffMs] : m \in {"today", "all"}}

\* const DEFAULTS, as far as main() reads it.
Defaults ==
  [mode |-> "today", maxAgeDays |-> DefaultMaxAgeDays, startPage |-> DefaultStartPage,
   baseUrl |-> BaseUrl, retries |-> DefaultRetries,
   retryBackoffMs |-> DefaultRetryBackoffMs]

\* A word of the command line is its pieces: the two dashes if it begins
\* with them, the key, the equals sign if there is one, and the characters
\* after it.
HasValue(a) == Len(a) >= 3 /\ a[3] = "="

\* vRaw ?? "true"
ValueOf(a) ==
  IF HasValue(a) THEN SubSeq(a, 4, Len(a)) ELSE <<"t", "r", "u", "e">>

\* The mode as the model names it; anything but the two is rejected.
ModeOf(v) ==
  IF v = <<"t", "o", "d", "a", "y">> THEN "today"
  ELSE IF v = <<"a", "l", "l">> THEN "all"
  ELSE "invalid"

\* One turn of the for loop of parseArgs: the switch has a case for mode,
\* baseUrl, startPage, delayMs, maxAgeDays, outDir and commitEveryPages, and
\* a default that does nothing.  The numbers on the command line are runs of
\* digits.
ParseWord(args, a) ==
  IF a = <<>> \/ a[1] # "--" \/ Len(a) < 2 THEN args
  ELSE CASE a[2] = "mode" -> [args EXCEPT !.mode = ModeOf(ValueOf(a))]
         [] a[2] = "baseUrl" -> [args EXCEPT !.baseUrl = ValueOf(a)]
         [] a[2] = "startPage" /\ HasValue(a) ->
              [args EXCEPT !.startPage = NumberOf(ValueOf(a))]
         [] a[2] = "maxAgeDays" /\ HasValue(a) ->
              [args EXCEPT !.maxAgeDays = NumberOf(ValueOf(a))]
         [] OTHER -> args

RECURSIVE ParseWords(_, _)
ParseWords(args, words) ==
  IF words = <<>> THEN args
  ELSE ParseWords(ParseWord(args, Head(words)), Tail(words))

\* parseArgs(process.argv), on the words after the script's name.
parseArgs(words) == ParseWords(Defaults, words)

\* node scrape.js --max-pages 1 --max-items 50
SmokeWords == <<<<"--", "max-pages">>, <<"1">>, <<"--", "max-items">>, <<"5", "0">>>>
\* The limits the smoke test names.
SmokeMaxPages == 1
SmokeMaxItems == 50

\* Other command lines: none, --mode=all, --maxAgeDays=2 --mode=all,
\* --startPage=2.
CommandLines ==
  {<<>>, SmokeWords,
   <<<<"--", "mode", "=", "a", "l", "l">>>>,
   <<<<"--", "maxAgeDays", "=", "2">>, <<"--", "mode", "=", "a", "l", "l">>>>,
   <<<<"--", "startPage", "=", "2">>>>}

(* ----------------------------- the source ----------------------------- *)

urlA == <<"a">>
urlB == <<"b">>

\* The cards the listing serves: a fresh posting, the same posting served
\* again with other texts and a padded href, a posting without a posted
\* text, and a card without a job link.
cardA == Card(urlA, Undefined, <<"x">>, <<"T", "o", "d", "a", "y">>)
cardA2 == Card(<<" ", "a">>, <<"p">>, <<"y">>, <<"2", "0", "0", " ", "d", "a", "y", "s">>)
cardB == Card(urlB, Undefined, <<>>, <<>>)
cardNoLink == Card(Undefined, Undefined, <<"x">>, <<>>)

\* What one page of the listing can hold.
SitePages ==
  {<<>>, <<cardNoLink>>, <<cardA, cardB>>, <<cardA2>>, <<cardB, cardNoLink>>,
   <<cardA, cardA2>>}

Times == 1..MaxTime

(* ------------------------------- state -------------------------------- *)

VARIABLES
  pc,        \* where main() stands, or how the process ended
  fetches,   \* how many pages were loaded so far, over all runs
  args,      \* parseArgs(process.argv)
  page,      \* main: page
  html,      \* main: html, as the sequence of its cards
  jobs,      \* main: jobs
  i,         \* position of the for loop over jobs
  now,       \* the last reading of the wall clock (main: ts)
  index,     \* main: index
  stopInfo,  \* main: stopInfo
  attempt,   \* fetchWithRetry: attempt
  lastErr,   \* fetchWithRetry: lastErr
  pauses,    \* the sleeps of the fetchWithRetry call under way, in order
  thrown,    \* what main().catch was handed
  trail,     \* the pages this run has loaded: number, records, time observed
  prior,     \* the index as this run loaded it
  pending,   \* lines handed to eventsStream that are not in jobs.jsonl yet
  disk,      \* outDir/index.json
  tmp,       \* the temporary file of the writeJsonAtomic call under way
  events,    \* outDir/jobs.jsonl
  jobsJson,  \* outDir/jobs.json
  jobsCsv    \* outDir/jobs.csv

mem == <<args, page, html, jobs, i, index, stopInfo>>
call == <<attempt, lastErr, pauses>>
hist == <<trail, prior>>
files == <<disk, tmp, events, jobsJson, jobsCsv>>
vars == <<pc, fetches, now, thrown, mem, call, hist, pending, files>>

Off == {"off", "done", "failed", "crashed"}
Running == {"fetch", "extract", "loop", "write", "rename", "policy", "snapshot"}

NoStop == [stop |-> FALSE, reason |-> <<>>]
NoSnapshot == [kind |-> "missing", rows |-> {}]
NoCsv == [kind |-> "missing", header |-> <<>>, rows |-> {}]

\* let lastErr = null
NullError == "null"
\* Nothing reached main().catch.
NoError == "none"
\* What an attempt can fail with: new Error(`HTTP ${res.status}`), the
\* rejection of fetch() on a network failure, the abort of the timer.
Errors == {"HTTP", "network", "timeout"}
\* A property read or written on null, Object.values(null).
TypeError == "TypeError"

\* index.json before the first start: absent, empty, unparsable, or JSON
\* that is an empty object, an empty array or null.  An index with entries
\* is what an earlier run of the model left behind.
PriorFiles ==
  {NoFile, BlankFile, GarbageFile,
   JsonFile(EmptyObject), JsonFile(EmptyArray), JsonFile(JsonNull)}

\* The memory of a process that is not running.
MemOff ==
  /\ page = DefaultStartPage
  /\ html = <<>>
  /\ jobs = <<>>
  /\ i = 1
  /\ index = EmptyObject
  /\ stopInfo = NoStop
  /\ attempt = 1
  /\ lastErr = NullError
  /\ pauses = <<>>
  /\ trail = <<>>
  /\ prior = EmptyObject
  /\ pending = <<>>

Init ==
  /\ pc = "off"
  /\ fetches = 0
  /\ args \in ArgSets
  /\ now = 1
  /\ thrown = NoError
  /\ MemOff
  /\ disk \in PriorFiles
  /\ tmp = NoFile
  /\ events = <<>>
  /\ jobsJson = NoSnapshot
  /\ jobsCsv = NoCsv

\* fetchWithRetry is entered, or left: its locals hold their first values.
CallReset ==
  /\ attempt' = 1
  /\ lastErr' = NullError
  /\ pauses' = <<>>

\* The process ends: its memory is gone, the lines still held by the
\* stream with it; the files stay.
Exit(how) ==
  /\ pc' = how
  /\ page' = DefaultStartPage
  /\ html' = <<>>
  /\ jobs' = <<>>
  /\ i' = 1
  /\ index' = EmptyObject
  /\ stopInfo' = NoStop
  /\ CallReset
  /\ trail' = <<>>
  /\ prior' = EmptyObject
  /\ pending' = <<>>
  /\ now' = 1
  /\ UNCHANGED <<fetches, args>>

(* ------------------------------ actions ------------------------------- *)

\* main, lines 321-334: parse the arguments, load the index, open the log.
Start ==
  /\ pc \in Off
  /\ index' = readJsonIfExists(disk, EmptyObject)
  /\ prior' = index'
  /\ page' = args.startPage
  /\ pc' = "fetch"
  /\ tmp' = NoFile
  /\ thrown' = NoError
  /\ UNCHANGED <<fetches, args, html, jobs, i, stopInfo, now, call, trail, pending,
                 disk, events, jobsJson, jobsCsv>>

\* A failed attempt that sleeps even when it was the last one.
AttemptFailedAlwaysSleeps ==
  /\ pc = "fetch"
  /\ attempt <= args.retries
  /\ lastErr' \in Errors
  /\ pauses' = Append(pauses, args.retryBackoffMs * attempt)
  /\ attempt' = attempt + 1
  /\ UNCHANGED <<pc, fetches, now, thrown, mem, hist, pending, files>>

\* fetchWithRetry, lines 156-160: an attempt fails; the error is kept and,
\* unless this was the last attempt, the call sleeps before the next one.
AttemptFailed ==
  /\ pc = "fetch"
  /\ attempt <= args.retries
  /\ lastErr' \in Errors
  /\ pauses' = IF attempt < args.retries
               THEN Append(pauses, args.retryBackoffMs * attempt)
               ELSE pauses
  /\ attempt' = attempt + 1
  /\ UNCHANGED <<pc, fetches, now, thrown, mem, hist, pending, files>>

\* fetchWithRetry returns the page, lines 146-155.
FetchOk ==
  /\ pc = "fetch"
  /\ attempt <= args.retries
  /\ fetches < MaxFetch
  /\ fetches' = fetches + 1
  /\ html' \in SitePages
  /\ trail' = Append(trail, [page |-> page, jobs |-> <<>>, ts |-> 0])
  /\ CallReset
  /\ pc' = "extract"
  /\ UNCHANGED <<args, page, jobs, i, index, stopInfo, now, thrown, prior, pending, files>>

\* fetchWithRetry, line 162: the loop is over, lastErr is thrown, and
\* main().catch exits with 1.
FetchExhausted ==
  /\ pc = "fetch"
  /\ attempt > args.retries
  /\ thrown' = lastErr
  /\ Exit("failed")
  /\ UNCHANGED files

\* main, lines 341-342.  nowIso() reads the wall clock (new Date()), which
\* the system can set back between two readings: a reading is any instant.
Extract ==
  /\ pc = "extract"
  /\ jobs' = extractJobsFromHtml(html, args.baseUrl)
  /\ now' \in Times
  /\ trail' = [trail EXCEPT ![Len(trail)] = [page |-> page, jobs |-> jobs', ts |-> now']]
  /\ i' = 1
  /\ pc' = "loop"
  /\ UNCHANGED <<fetches, args, page, html, index, stopInfo, thrown, call, prior,
                 pending, files>>

\* One turn of the for loop, lines 346-349.  eventsStream.write hands the
\* line to the stream, which writes it to jobs.jsonl later.  A null index
\* makes upsertIndex throw a TypeError when it reads indexObj[job.id];
\* process.exit(1) then ends the process while the stream may or may not
\* have written what it holds.
Upsert ==
  /\ pc = "loop"
  /\ i <= Len(jobs)
  /\ LET line == Spread([observed_at |-> now], jobs[i])
     IN IF index.kind = "null"
        THEN /\ events' \in {events, events \o pending \o <<line>>}
             /\ thrown' = TypeError
             /\ Exit("failed")
        ELSE /\ pending' = Append(pending, line)
             /\ index' = upsertIndex(index, jobs[i], now).index
             /\ i' = i + 1
             /\ UNCHANGED <<pc, fetches, args, page, html, jobs, stopInfo, now,
                            thrown, call, hist, events>>
  /\ UNCHANGED <<disk, tmp, jobsJson, jobsCsv>>

\* The stream writes the lines it holds to jobs.jsonl (flags: "a").  Its
\* callbacks run while main() awaits: in fetchWithRetry and in sleep.
Flush ==
  /\ pc = "fetch"
  /\ pending # <<>>
  /\ events' = events \o pending
  /\ pending' = <<>>
  /\ UNCHANGED <<pc, fetches, now, thrown, mem, call, hist, disk, tmp, jobsJson, jobsCsv>>

\* A write that opens index.json itself instead of a temporary file.
WriteBeginInPlace ==
  /\ pc = "loop"
  /\ i > Len(jobs)
  /\ disk' = GarbageFile
  /\ pc' = "write"
  /\ UNCHANGED <<fetches, now, thrown, mem, call, hist, pending, tmp, events,
                 jobsJson, jobsCsv>>

\* writeJsonAtomic, line 90: the temporary file is created and filled.
WriteBegin ==
  /\ pc = "loop"
  /\ i > Len(jobs)
  /\ tmp' = GarbageFile
  /\ pc' = "write"
  /\ UNCHANGED <<fetches, now, thrown, mem, call, hist, pending, disk, events,
                 jobsJson, jobsCsv>>

WriteEnd ==
  /\ pc = "write"
  /\ tmp' = Stringify(index)
  /\ pc' = "rename"
  /\ UNCHANGED <<fetches, now, thrown, mem, call, hist, pending, disk, events,
                 jobsJson, jobsCsv>>

\* A commit that drops the temporary file instead of renaming it.
RenameSkipped ==
  /\ pc = "rename"
  /\ tmp' = NoFile
  /\ pc' = "policy"
  /\ UNCHANGED <<fetches, now, thrown, mem, call, hist, pending, disk, events,
                 jobsJson, jobsCsv>>

\* writeJsonAtomic, line 91.
Rename ==
  /\ pc = "rename"
  /\ disk' = tmp
  /\ tmp' = NoFile
  /\ pc' = "policy"
  /\ UNCHANGED <<fetches, now, thrown, mem, call, hist, pending, events,
                 jobsJson, jobsCsv>>

\* A loop that steps over a page when it continues.
PolicySkipsPage ==
  /\ pc = "policy"
  /\ stopInfo' = computeStopForMode(args.mode, jobs, args.maxAgeDays)
  /\ IF stopInfo'.stop
     THEN pc' = "snapshot" /\ page' = page
     ELSE pc' = "fetch" /\ page' = page + 2
  /\ now' = 1
  /\ UNCHANGED <<fetches, args, html, jobs, i, index, thrown, call, hist,
                 pending, files>>

\* A loop that goes on whatever the policy says.
PolicyIgnoresStop ==
  /\ pc = "policy"
  /\ stopInfo' = computeStopForMode(args.mode, jobs, args.maxAgeDays)
  /\ pc' = "fetch" /\ page' = page + 1
  /\ now' = 1
  /\ UNCHANGED <<fetches, args, html, jobs, i, index, thrown, call, hist,
                 pending, files>>

\* main, lines 353-360.  ts belongs to the turn of the while loop that
\* ends here.
Policy ==
  /\ pc = "policy"
  /\ stopInfo' = computeStopForMode(args.mode, jobs, args.maxAgeDays)
  /\ IF stopInfo'.stop
     THEN pc' = "snapshot" /\ page' = page
     ELSE pc' = "fetch" /\ page' = page + 1
  /\ now' = 1
  /\ UNCHANGED <<fetches, args, html, jobs, i, index, thrown, call, hist,
                 pending, files>>

\* main, lines 363-367: the stream is ended, which writes what it holds
\* before the process ends, and the two snapshots are written.
\* Object.values(null) throws a TypeError.
Snapshot ==
  /\ pc = "snapshot"
  /\ IF index.kind = "null"
     THEN /\ events' \in {events, events \o pending}
          /\ thrown' = TypeError
          /\ Exit("failed")
          /\ UNCHANGED <<jobsJson, jobsCsv>>
     ELSE /\ events' = events \o pending
          /\ jobsJson' = [kind |-> "json", rows |-> Values(index)]
          /\ jobsCsv' = Spread([kind |-> "csv"], buildCsvRowsFromIndex(index))
          /\ Exit("done")
          /\ UNCHANGED thrown
  /\ UNCHANGED <<disk, tmp>>

\* The process is killed; what the stream holds is lost with it.
Crash ==
  /\ pc \in Running
  /\ Exit("crashed")
  /\ UNCHANGED <<thrown, files>>

Next ==
  \/ Start
  \/ AttemptFailed
  \/ FetchOk
  \/ FetchExhausted
  \/ Extract
  \/ Upsert
  \/ Flush
  \/ WriteBegin
  \/ WriteEnd
  \/ Rename
  \/ Policy
  \/ Snapshot
  \/ Crash

Spec == Init /\ [][Next]_vars

(* --------------- mode "today" from other first pages ------------------ *)

\* --startPage=N
StartPages == {DefaultStartPage, 2, 5}

InitPages ==
  /\ pc = "off"
  /\ fetches = 0
  /\ args \in {[a EXCEPT !.startPage = n] :
                a \in {x \in ArgSets : x.mode = "today"}, n \in StartPages}
  /\ now = 1
  /\ thrown = NoError
  /\ MemOff
  /\ disk = NoFile
  /\ tmp = NoFile
  /\ events = <<>>
  /\ jobsJson = NoSnapshot
  /\ jobsCsv = NoCsv

SpecPages == InitPages /\ [][Next]_vars

(* ------------------- fetchWithRetry, on its own ----------------------- *)

\* The retryBackoffMs values tried.
Backoffs == {DefaultRetryBackoffMs, 50}

\* One call of fetchWithRetry, for every retries from 0 to MaxRetries.
InitFetch ==
  /\ pc = "fetch"
  /\ fetches = 0
  /\ args \in {[a EXCEPT !.retries = r, !.retryBackoffMs = b] :
                a \in ArgSets, r \in 0..MaxRetries, b \in Backoffs}
  /\ now = 1
  /\ thrown = NoError
  /\ MemOff
  /\ disk = NoFile
  /\ tmp = NoFile
  /\ events = <<>>
  /\ jobsJson = NoSnapshot
  /\ jobsCsv = NoCsv

NextFetch ==
  \/ AttemptFailed
  \/ FetchOk
  \/ FetchExhausted

SpecFetch == InitFetch /\ [][NextFetch]_vars

(* ---------------- the extractor on one card, on its own --------------- *)

Alphabet == {"a", "b", " ", "\t"}

\* The hrefs a job link can carry: every text of at most MaxLen characters.
Hrefs == SeqsUpTo(Alphabet, MaxLen)

InitId ==
  /\ pc = "extract"
  /\ fetches = 1
  /\ args \in ArgSets
  /\ now = 1
  /\ page = DefaultStartPage
  /\ html \in {<<Card(J, Undefined, <<>>, <<>>)>> : J \in Hrefs}
  /\ jobs = <<>>
  /\ i = 1
  /\ index = EmptyObject
  /\ stopInfo = NoStop
  /\ attempt = 1
  /\ lastErr = NullError
  /\ pauses = <<>>
  /\ thrown = NoError
  /\ trail = <<[page |-> page, jobs |-> <<>>, ts |-> 0]>>
  /\ prior = EmptyObject
  /\ pending = <<>>
  /\ disk = NoFile
  /\ tmp = NoFile
  /\ events = <<>>
  /\ jobsJson = NoSnapshot
  /\ jobsCsv = NoCsv

NextId == Extract

SpecId == InitId /\ [][NextId]_vars

(* --------------------- the stop policy, on its own -------------------- *)

StopAges == {Null, 0, 1, 2, 5, 200}

StopThresholds == {1, 2, DefaultMaxAgeDays}

JobWithAge(a) == [JobOfCard(cardB, BaseUrl) EXCEPT !.posted_age_days = a]

InitStop ==
  /\ pc = "policy"
  /\ fetches = 1
  /\ args \in {[mode |-> m, maxAgeDays |-> d, startPage |-> DefaultStartPage,
                baseUrl |-> BaseUrl, retries |-> DefaultRetries,
                retryBackoffMs |-> DefaultRetryBackoffMs] :
                m \in {"today", "all"}, d \in StopThresholds}
  /\ now = 1
  /\ page = DefaultStartPage
  /\ html = <<>>
  /\ jobs \in SeqsUpTo({JobWithAge(a) : a \in StopAges}, MaxJobs)
  /\ i = Len(jobs) + 1
  /\ index = EmptyObject
  /\ stopInfo = NoStop
  /\ attempt = 1
  /\ lastErr = NullError
  /\ pauses = <<>>
  /\ thrown = NoError
  /\ trail = <<[page |-> page, jobs |-> jobs, ts |-> now]>>
  /\ prior = EmptyObject
  /\ pending = <<>>
  /\ disk = JsonFile(EmptyObject)
  /\ tmp = NoFile
  /\ events = <<>>
  /\ jobsJson = NoSnapshot
  /\ jobsCsv = NoCsv

NextStop == Policy

SpecStop == InitStop /\ [][NextStop]_vars

(* ------------------- the fields of one card, on their own ------------- *)

\* A card that has everything the selectors look for.
FullCard ==
  [href |-> urlA,
   company |-> <<"C", "o", " ", "N", "e", "w">>,
   site |-> <<"c", ".", "i", "o">>,
   title |-> <<"D", "e", "v">>,
   apply |-> <<"a", "/", "g", "o">>,
   location |-> <<"N", "Y">>,
   experience |-> <<"2", "y">>,
   posted |-> <<"3", " ", "d", "a", "y", "s">>,
   logo |-> <<"l", ".", "p", "n", "g">>,
   size |-> <<"1", "-", "9">>,
   funding |-> <<<<"S", "e", "e", "d">>, <<" ">>>>,
   what |-> <<"W", "h", "a", "t", " ", "t", "h", "e", "y", " ", "d", "o", ":",
              " ", "A", "I">>,
   industries |-> <<<<"B", "2", "B">>>>]

\* The cards that have some of it: what a card lacks reads as in NoCard.
PartialCards ==
  {[f \in DOMAIN NoCard |-> IF f \in S THEN FullCard[f] ELSE NoCard[f]] :
     S \in SUBSET DOMAIN NoCard}

InitFields ==
  /\ pc = "extract"
  /\ fetches = 1
  /\ args \in ArgSets
  /\ now = 1
  /\ page = DefaultStartPage
  /\ html \in {<<c>> : c \in PartialCards}
  /\ jobs = <<>>
  /\ i = 1
  /\ index = EmptyObject
  /\ stopInfo = NoStop
  /\ attempt = 1
  /\ lastErr = NullError
  /\ pauses = <<>>
  /\ thrown = NoError
  /\ trail = <<[page |-> page, jobs |-> <<>>, ts |-> 0]>>
  /\ prior = EmptyObject
  /\ pending = <<>>
  /\ disk = NoFile
  /\ tmp = NoFile
  /\ events = <<>>
  /\ jobsJson = NoSnapshot
  /\ jobsCsv = NoCsv

NextFields == Extract

SpecFields == InitFields /\ [][NextFields]_vars

(* ------------------- the age of a posting, on its own ----------------- *)

\* How many pieces a posted text is put together from.
MaxParts == 3

\* The pieces of a posted text.
AgePieces ==
  {<<"t", "o", "d", "a", "y">>, <<"T", "o", "d", "a", "y">>,
   <<"d", "a", "y">>, <<"D", "a", "y", "s">>,
   <<"h", "o", "u", "r">>, <<"m", "i", "n", "u", "t", "e">>,
   <<"2", " ", "h", "o", "u", "r", "s">>,
   <<"3">>, <<"1", "2">>, <<" ">>, <<"\n">>, <<"x">>}

PostedTexts == {Join(ps, <<>>) : ps \in SeqsUpTo(AgePieces, MaxParts)}

InitAge ==
  /\ pc = "extract"
  /\ fetches = 1
  /\ args \in ArgSets
  /\ now = 1
  /\ page = DefaultStartPage
  /\ html \in {<<Card(urlA, Undefined, <<>>, p)>> : p \in PostedTexts}
  /\ jobs = <<>>
  /\ i = 1
  /\ index = EmptyObject
  /\ stopInfo = NoStop
  /\ attempt = 1
  /\ lastErr = NullError
  /\ pauses = <<>>
  /\ thrown = NoError
  /\ trail = <<[page |-> page, jobs |-> <<>>, ts |-> 0]>>
  /\ prior = EmptyObject
  /\ pending = <<>>
  /\ disk = NoFile
  /\ tmp = NoFile
  /\ events = <<>>
  /\ jobsJson = NoSnapshot
  /\ jobsCsv = NoCsv

NextAge == Extract

SpecAge == InitAge /\ [][NextAge]_vars

(* ------------------ a page with repeated cards, on its own ------------ *)

\* How many cards a page holds.
MaxCards == 3

\* The posting of cardB served again with other texts.
cardB2 == Card(urlB, <<"q">>, <<"z">>, <<"1", " ", "d", "a", "y">>)

DupCards == {cardA, cardA2, cardB, cardB2, cardNoLink}

InitDedupe ==
  /\ pc = "extract"
  /\ fetches = 1
  /\ args \in ArgSets
  /\ now = 1
  /\ page = DefaultStartPage
  /\ html \in SeqsUpTo(DupCards, MaxCards)
  /\ jobs = <<>>
  /\ i = 1
  /\ index = EmptyObject
  /\ stopInfo = NoStop
  /\ attempt = 1
  /\ lastErr = NullError
  /\ pauses = <<>>
  /\ thrown = NoError
  /\ trail = <<[page |-> page, jobs |-> <<>>, ts |-> 0]>>
  /\ prior = EmptyObject
  /\ pending = <<>>
  /\ disk = NoFile
  /\ tmp = NoFile
  /\ events = <<>>
  /\ jobsJson = NoSnapshot
  /\ jobsCsv = NoCsv

NextDedupe == Extract

SpecDedupe == InitDedupe /\ [][NextDedupe]_vars

(* ---------------------- the csv snapshot, on its own ------------------ *)

\* The characters of a company name: the three that make csvEscape quote a
\* cell, and one that does not.
CsvAlphabet == {",", "\"", "\n", "a"}

CsvTexts == SeqsUpTo(CsvAlphabet, MaxLen)

CsvTagLists ==
  {<<>>, <<<<"a", ",", "b">>>>, <<<<"\"">>>>, <<<<"x">>, <<"\n", "\\">>>>}

\* The entry upsertIndex makes of a card that has everything, with the
\* company name and the funding tags replaced.
FullEntry(c, f) ==
  Spread(upsertIndex(EmptyObject, JobOfCard(FullCard, BaseUrl), 1).index.props[urlA],
         [company |-> c, funding_tags |-> f])

\* An entry of an index.json written by other hands: most keys are missing.
SparseEntry(c) == [id |-> urlB, company |-> c, posted_age_days |-> Null]

InitCsv ==
  /\ pc = "snapshot"
  /\ fetches = 1
  /\ args \in ArgSets
  /\ now = 1
  /\ page = DefaultStartPage
  /\ html = <<>>
  /\ jobs = <<>>
  /\ i = 1
  /\ index \in {[kind |-> "object",
                 props |-> SetProp(SetProp(EmptyProps, urlA, FullEntry(c, f)),
                                   urlB, SparseEntry(c))] :
                  c \in CsvTexts, f \in CsvTagLists}
  /\ stopInfo = [stop |-> TRUE, reason |-> <<"no_cards">>]
  /\ attempt = 1
  /\ lastErr = NullError
  /\ pauses = <<>>
  /\ thrown = NoError
  /\ trail = <<[page |-> page, jobs |-> <<>>, ts |-> now]>>
  /\ prior = index
  /\ pending = <<>>
  /\ disk = JsonFile(index)
  /\ tmp = NoFile
  /\ events = <<>>
  /\ jobsJson = NoSnapshot
  /\ jobsCsv = NoCsv

NextCsv == Snapshot

SpecCsv == InitCsv /\ [][NextCsv]_vars

(* ----------------------- runs from a command line --------------------- *)

\* The smoke test's run, and others, in an empty or used output directory.
InitCli ==
  /\ pc = "off"
  /\ fetches = 0
  /\ args \in {parseArgs(w) : w \in CommandLines}
  /\ now = 1
  /\ thrown = NoError
  /\ MemOff
  /\ disk \in {NoFile, JsonFile(EmptyObject)}
  /\ tmp = NoFile
  /\ events = <<>>
  /\ jobsJson = NoSnapshot
  /\ jobsCsv = NoCsv

SpecCli == InitCli /\ [][Next]_vars

(* ------------------ one run in a fresh output directory --------------- *)

\* No index.json, or one that is empty, unparsable or {}; no jobs.jsonl.
FreshFiles == {NoFile, BlankFile, GarbageFile, JsonFile(EmptyObject)}

InitFirstRun ==
  /\ pc = "off"
  /\ fetches = 0
  /\ args \in ArgSets
  /\ now = 1
  /\ thrown = NoError
  /\ MemOff
  /\ disk \in FreshFiles
  /\ tmp = NoFile
  /\ events = <<>>
  /\ jobsJson = NoSnapshot
  /\ jobsCsv = NoCsv

\* The steps of main(), started once.
NextFirstRun ==
  \/ (pc = "off" /\ Start)
  \/ AttemptFailed
  \/ FetchOk
  \/ FetchExhausted
  \/ Extract
  \/ Upsert
  \/ Flush
  \/ WriteBegin
  \/ WriteEnd
  \/ Rename
  \/ Policy
  \/ Snapshot
  \/ Crash

SpecFirstRun == InitFirstRun /\ [][NextFirstRun]_vars

(* --------------- one run against a listing that runs out -------------- *)

\* The last page of the listing that can hold a card.
LastFullPage == MaxFetch - 1

\* What the listing serves as page p: past its last page, nothing that
\* gives a record.
PagesAt(p) ==
  IF p <= LastFullPage THEN SitePages
  ELSE {h \in SitePages : extractJobsFromHtml(h, BaseUrl) = <<>>}

\* Thresholds below and above the age of the oldest posting the listing
\* serves.
EndThresholds == {DefaultMaxAgeDays, 365}

EndArgs ==
  {[Defaults EXCEPT !.mode = m, !.maxAgeDays = d, !.startPage = p] :
     m \in {"today", "all"}, d \in EndThresholds, p \in 1..(LastFullPage + 1)}

InitEnds ==
  /\ pc = "off"
  /\ fetches = 0
  /\ args \in EndArgs
  /\ now = 1
  /\ thrown = NoError
  /\ MemOff
  /\ disk = NoFile
  /\ tmp = NoFile
  /\ events = <<>>
  /\ jobsJson = NoSnapshot
  /\ jobsCsv = NoCsv

\* fetchWithRetry returns the page the listing serves.
FetchOkFinite == FetchOk /\ html' \in PagesAt(page)

\* One call of fetchWithRetry goes on: an attempt fails, an attempt
\* succeeds, or the attempts are used up.
FetchStep == AttemptFailed \/ FetchOkFinite \/ FetchExhausted

NextEnds ==
  \/ (pc = "off" /\ Start)
  \/ FetchStep
  \/ Extract
  \/ Upsert
  \/ Flush
  \/ WriteBegin
  \/ WriteEnd
  \/ Rename
  \/ Policy
  \/ Snapshot
  \/ Crash

\* main() goes on through its page loop as long as it is not killed, and
\* every attempt of a fetch ends, by a response or by an error.
\* extractJobsFromHtml is synchronous and total: Extract is enabled exactly
\* when pc = "extract" and leaves it, so its weak fairness is that main()
\* does not stay there for ever.
FairEnds ==
  /\ WF_vars(FetchStep)
  /\ []<>(pc # "extract")
  /\ WF_vars(Upsert)
  /\ WF_vars(WriteBegin)
  /\ WF_vars(WriteEnd)
  /\ WF_vars(Rename)
  /\ WF_vars(Policy)

SpecEnds == InitEnds /\ [][NextEnds]_vars /\ FairEnds

(* ------------------------------- claims ------------------------------- *)

\* The ids index.json holds.
FileIds(f) ==
  IF f.kind = "json" /\ f.val.kind = "object" THEN DOMAIN f.val.props ELSE {}

\* A step is one completed turn of the for loop over jobs.
UpsertStep == pc = "loop" /\ i <= Len(jobs) /\ pc' = "loop" /\ i' = i + 1

\* C1: index.json changes only by the rename that ends writeJsonAtomic, and
\* then it holds the whole in-memory index; every other step, a crash before,
\* while or after the temporary file is written included, leaves it as the
\* last commit left it, and no step leaves it truncated or unparsable.
C1_AtomicIndexCommit ==
  [][/\ (disk' # disk => pc = "rename" /\ pc' = "policy")
     /\ (pc = "rename" /\ pc' = "policy" =>
           /\ disk'.kind = "json"
           /\ disk'.val.kind = index.kind
           /\ (index.kind = "object" => disk'.val.props = index.props))
     /\ (disk'.kind \in {"garbage", "blank", "missing"} => disk' = disk)]_vars

\* The process died while the temporary file was partly written, and
\* index.json still holds the entries of the last commit.
C1_Witness ==
  /\ pc = "crashed"
  /\ tmp = GarbageFile
  /\ disk.kind = "json"
  /\ FileIds(disk) # {}

\* C2: an upsert of an id already in the index keeps created_at, sets
\* updated_at to the observation's time, returns isNew = FALSE and
\* changed = TRUE, and leaves the entry with the fields of the observation
\* and nothing else of the earlier entry.
C2_MergeSeenId ==
  [][(UpsertStep /\ jobs[i].id \in DOMAIN index.props) =>
       LET job == jobs[i]
           old == index.props[job.id]
           new == index'.props[job.id]
           ret == upsertIndex(index, job, now)
       IN /\ new.created_at = old.created_at
          /\ new.updated_at = now
          /\ ret.isNew = FALSE
          /\ ret.changed = TRUE
          /\ DOMAIN new = DOMAIN job \cup {"created_at", "updated_at"}
          /\ \A f \in DOMAIN job : new[f] = job[f]
          /\ new.id = old.id]_vars

\* The posting an earlier run stored at time 1 with location "x" was loaded
\* from index.json, seen again at time 2 with location "y" on the first page
\* of this run, and merged.
C2_Witness ==
  /\ pc = "loop"
  /\ i = 2
  /\ page = DefaultStartPage
  /\ fetches = 2
  /\ urlA \in FileIds(disk)
  /\ urlA \in DOMAIN index.props
  /\ index.props[urlA].location = <<"y">>
  /\ index.props[urlA].created_at = 1
  /\ index.props[urlA].updated_at = 2

\* C3: an upsert of an id absent from the index adds exactly one entry,
\* under that id, with created_at = updated_at = the observation's time,
\* returns isNew = TRUE, and leaves every other entry as it was.
C3_InsertUnseenId ==
  [][(UpsertStep /\ jobs[i].id \notin DOMAIN index.props) =>
       LET job == jobs[i]
           new == index'.props[job.id]
       IN /\ DOMAIN index'.props = DOMAIN index.props \cup {job.id}
          /\ Cardinality(DOMAIN index'.props) = Cardinality(DOMAIN index.props) + 1
          /\ new.created_at = now
          /\ new.updated_at = now
          /\ \A f \in DOMAIN job : new[f] = job[f]
          /\ upsertIndex(index, job, now).isNew = TRUE
          /\ \A k \in DOMAIN index.props : index'.props[k] = index.props[k]]_vars

\* The second posting of a page was inserted beside an entry that an
\* earlier page had created.
C3_Witness ==
  /\ pc = "loop"
  /\ i = 3
  /\ DOMAIN index.props = {urlA, urlB}
  /\ index.props[urlB].created_at = now
  /\ index.props[urlB].updated_at = now
  /\ index.props[urlA].created_at # now

\* C4: no step (page commit, run end, fatal fetch failure, crash, restart)
\* removes an id from index.json.
C4_IdsNeverLost == [][FileIds(disk) \subseteq FileIds(disk')]_vars

\* A later run that saw one posting only committed an index that still
\* holds the other posting an earlier run had stored.
C4_Witness ==
  /\ pc = "policy"
  /\ page = DefaultStartPage
  /\ fetches = 2
  /\ Len(jobs) = 1
  /\ FileIds(disk) = {urlA, urlB}

\* C5: every entry of the index has created_at <= updated_at.
C5_CreatedNotAfterUpdated ==
  \A k \in DOMAIN index.props :
    index.props[k].created_at <= index.props[k].updated_at

\* Text with nothing but whitespace in it.
Blank(s) == \A k \in 1..Len(s) : s[k] \in WS

\* y is s without its leading and trailing whitespace.
IsTrimOf(y, s) ==
  /\ y # <<>> => y[1] \notin WS /\ y[Len(y)] \notin WS
  /\ \E a \in 0..Len(s) :
       /\ a + Len(y) <= Len(s)
       /\ SubSeq(s, a + 1, a + Len(y)) = y
       /\ \A k \in 1..Len(s) : (k <= a \/ k > a + Len(y)) => s[k] \in WS

\* The maximal runs of non-whitespace characters of s, in order.
RECURSIVE Words(_)
Words(s) ==
  IF s = <<>> THEN <<>>
  ELSE IF Head(s) \in WS THEN Words(Tail(s))
  ELSE LET n == CHOOSE m \in 1..Len(s) :
                  /\ \A k \in 1..m : s[k] \notin WS
                  /\ (m = Len(s) \/ s[m + 1] \in WS)
       IN <<SubSeq(s, 1, n)>> \o Words(SubSeq(s, n + 1, Len(s)))

\* The words with one space between them.
RECURSIVE JoinWords(_)
JoinWords(ws) ==
  IF ws = <<>> THEN <<>>
  ELSE IF Len(ws) = 1 THEN ws[1]
  ELSE ws[1] \o <<" ">> \o JoinWords(Tail(ws))

\* A step extracts a page of one card that has a job link.
ExtractOneStep ==
  pc = "extract" /\ pc' = "loop" /\ Len(html) = 1 /\ html[1].href # Undefined

\* C6 as stated: the id is the href with its leading and trailing whitespace
\* removed and nothing else changed, and there is no id exactly when the
\* href is empty or whitespace only.
C6_IdIsTrimmedHref ==
  [][ExtractOneStep =>
       /\ (jobs' = <<>>) <=> Blank(html[1].href)
       /\ jobs' # <<>> => IsTrimOf(jobs'[1].id, html[1].href)]_vars

\* C6 as amended: the id is the href with its leading and trailing
\* whitespace removed and every run of whitespace inside it replaced by one
\* space; it is the record's job_url, already trimmed; and there is no id
\* exactly when the href is empty or whitespace only.
C6_IdIsNormalizedHref ==
  [][ExtractOneStep =>
       /\ (jobs' = <<>>) <=> Blank(html[1].href)
       /\ jobs' # <<>> =>
            /\ Len(jobs') = 1
            /\ jobs'[1].id = JoinWords(Words(html[1].href))
            /\ jobs'[1].id = jobs'[1].job_url
            /\ IsTrimOf(jobs'[1].id, jobs'[1].job_url)]_vars

\* A card whose href had whitespace inside it was extracted.
C6_Witness ==
  /\ pc = "loop"
  /\ Len(jobs) = 1
  /\ \E k \in 1..Len(jobs[1].id) : jobs[1].id[k] = " "

\* An entry stored under key k carries that key as its id, a job_url and
\* both timestamps.
EntryIdentified(k, e) ==
  /\ {"id", "job_url", "created_at", "updated_at"} \subseteq DOMAIN e
  /\ e.id = k
  /\ k # <<>>
  /\ e.job_url # <<>>
  /\ e.created_at \in Times
  /\ e.updated_at \in Times

\* C7: every entry of the index, in memory and in index.json, has a
\* non-empty id equal to its key and a non-empty job_url, created_at and
\* updated_at; no record and no event is without an id or a job link.
C7_EntriesIdentified ==
  /\ \A k \in DOMAIN index.props : EntryIdentified(k, index.props[k])
  /\ \A k \in DOMAIN disk.val.props : EntryIdentified(k, disk.val.props[k])
  /\ \A n \in 1..Len(jobs) : jobs[n].id # <<>> /\ jobs[n].job_url # <<>>
  /\ \A n \in 1..Len(events) : events[n].id # <<>> /\ events[n].job_url # <<>>
  /\ \A n \in 1..Len(pending) : pending[n].id # <<>> /\ pending[n].job_url # <<>>

\* The page with a posting and a card without a job link was processed and
\* committed: one record, one event, one entry.
C7_Witness ==
  /\ pc = "policy"
  /\ Len(jobs) = 1
  /\ jobs[1].id = urlB
  /\ Len(events \o pending) = 1
  /\ FileIds(disk) = {urlB}

\* A step evaluates the stop policy.
PolicyStep == pc = "policy" /\ pc' \in {"fetch", "snapshot"}

\* C8: in mode "today", on a page with records, the policy continues exactly
\* when some record has a known age of at most 1.
C8_TodayContinuesIffFresh ==
  [][(PolicyStep /\ args.mode = "today" /\ jobs # <<>>) =>
       /\ (~ stopInfo'.stop) <=> (\E k \in 1..Len(jobs) : jobs[k].posted_age_days \in {0, 1})
       /\ (pc' = "fetch") <=> ~ stopInfo'.stop]_vars

\* Mode "today" stopped on a page whose records have no known age.
C8_Witness ==
  /\ pc = "snapshot"
  /\ args.mode = "today"
  /\ jobs # <<>>
  /\ \A k \in 1..Len(jobs) : jobs[k].posted_age_days = Null
  /\ stopInfo.stop

\* C9: in mode "all", on a page with records, the policy stops exactly when
\* the largest known age is above maxAgeDays, its reason then names
\* maxAgeDays, and it continues when no age is known.
C9_AllStopsIffTooOld ==
  [][(PolicyStep /\ args.mode = "all" /\ jobs # <<>>) =>
       LET known == {k \in 1..Len(jobs) : jobs[k].posted_age_days >= 0}
           oldest == {k \in known :
                        \A n \in known : jobs[n].posted_age_days <= jobs[k].posted_age_days}
       IN /\ stopInfo'.stop <=>
               (\E k \in oldest : jobs[k].posted_age_days > args.maxAgeDays)
          /\ stopInfo'.stop => stopInfo'.reason = <<"older_than_", args.maxAgeDays>>
          /\ known = {} => ~ stopInfo'.stop
          /\ (pc' = "snapshot") <=> stopInfo'.stop]_vars

\* Mode "all" stopped on a page that holds a record of 200 days, one of a
\* lesser age and one of unknown age.
C9_Witness ==
  /\ pc = "snapshot"
  /\ args.mode = "all"
  /\ args.maxAgeDays = DefaultMaxAgeDays
  /\ stopInfo = [stop |-> TRUE, reason |-> <<"older_than_", DefaultMaxAgeDays>>]
  /\ \E k \in 1..Len(jobs) : jobs[k].posted_age_days = Null
  /\ \E k \in 1..Len(jobs) : jobs[k].posted_age_days = 1

\* C10: on a page without records the policy stops with reason "no_cards",
\* in both modes and for every maxAgeDays.
C10_EmptyPageStops ==
  [][(PolicyStep /\ jobs = <<>>) =>
       /\ stopInfo' = [stop |-> TRUE, reason |-> <<"no_cards">>]
       /\ pc' = "snapshot"]_vars

\* Mode "all" stopped on an empty page.
C10_Witness ==
  /\ pc = "snapshot"
  /\ args.mode = "all"
  /\ jobs = <<>>
  /\ stopInfo = [stop |-> TRUE, reason |-> <<"no_cards">>]

\* The records of a page of the trail.
RecordsOf(t) == t.jobs

\* Some record is at most one day old.
Fresh(js) == \E k \in 1..Len(js) : js[k].posted_age_days \in {0, 1}

\* C11: in mode "today" the pages a run has loaded are startPage,
\* startPage + 1, ... without a gap or a repeat; every page but the last
\* loaded had a record of age 0 or 1; the next page is asked for only after
\* such a page; the loop is left only on a page without such a record (or
\* without records), and once it is left the run loads nothing more.
C11_TodayPagesInOrder ==
  /\ [](args.mode = "today" =>
          /\ \A k \in 1..Len(trail) : trail[k].page = args.startPage + k - 1
          /\ \A k \in 1..(Len(trail) - 1) : Fresh(RecordsOf(trail[k]))
          /\ pc = "fetch" =>
                /\ page = args.startPage + Len(trail)
                /\ trail # <<>> => Fresh(RecordsOf(trail[Len(trail)]))
          /\ pc = "snapshot" =>
                /\ trail # <<>>
                /\ page = trail[Len(trail)].page
                /\ ~ Fresh(RecordsOf(trail[Len(trail)])))
  /\ [][pc = "snapshot" => pc' \in {"snapshot"} \cup Off]_vars

\* A run in mode "today" from page 2 loaded pages 2 and 3 and stopped on
\* page 3, whose one record is 200 days old.
C11_Witness ==
  /\ pc = "snapshot"
  /\ args.mode = "today"
  /\ args.startPage = 2
  /\ Len(trail) = 2
  /\ trail[1].page = 2
  /\ trail[2].page = 3
  /\ Fresh(RecordsOf(trail[1]))
  /\ RecordsOf(trail[2]) # <<>>
  /\ ~ Fresh(RecordsOf(trail[2]))

\* A step issues a GET: the attempt that returns, or one that fails.
GetStep ==
  /\ pc = "fetch"
  /\ pc' = "extract" \/ (pc' = "fetch" /\ attempt' = attempt + 1)

\* C12: in one call of fetchWithRetry every GET is attempt number 1 to
\* retries, so at most retries are issued; a GET after the first follows an
\* attempt that failed; failed attempt k < retries is followed by one pause
\* of retryBackoffMs * k, and failed attempt number retries by none.
C12_AttemptsAndPauses ==
  /\ [][GetStep => /\ attempt <= args.retries
                   /\ attempt > 1 => lastErr \in Errors]_vars
  /\ [](pc = "fetch" =>
          /\ 1 <= attempt
          /\ attempt = 1 \/ attempt - 1 <= args.retries
          /\ DOMAIN pauses \subseteq 1..(attempt - 1)
          /\ \A k \in 1..(attempt - 1) :
                IF k < args.retries
                THEN k \in DOMAIN pauses /\ pauses[k] = args.retryBackoffMs * k
                ELSE k \notin DOMAIN pauses)

\* With retries = 3 and the default retryBackoffMs, three attempts failed:
\* the call slept 800 and 1600 and not after the third.
C12_Witness ==
  /\ pc = "fetch"
  /\ args.retries = DefaultRetries
  /\ attempt = DefaultRetries + 1
  /\ lastErr = "timeout"
  /\ pauses = <<DefaultRetryBackoffMs, 2 * DefaultRetryBackoffMs>>

RECURSIVE Observations(_)
Observations(tr) ==
  IF tr = <<>> THEN <<>>
  ELSE [n \in 1..Len(Head(tr).jobs) |-> [job |-> Head(tr).jobs[n], ts |-> Head(tr).ts]]
       \o Observations(Tail(tr))

\* The entries an index pr holds after the observations obs are merged
\* into it: an id that was observed has the fields of its last observation,
\* that observation's time as updated_at, and as created_at the one it had
\* in pr or else the time of its first observation.
MergedEntries(pr, obs) ==
  LET At(id) == {k \in 1..Len(obs) : obs[k].job.id = id}
  IN [id \in DOMAIN pr \cup {obs[k].job.id : k \in 1..Len(obs)} |->
        IF At(id) = {} THEN pr[id]
        ELSE Spread(obs[SetMax(At(id))].job,
                    [created_at |-> IF id \in DOMAIN pr THEN pr[id].created_at
                                    ELSE obs[SetMin(At(id))].ts,
                     updated_at |-> obs[SetMax(At(id))].ts])]

\* The entries of the index a run loaded; what is not an id -> record
\* object counts as the empty index.
PriorEntries == IF prior.kind = "object" THEN prior.props ELSE EmptyProps

\* The entries index.json holds.
FileEntries(f) ==
  IF f.kind = "json" /\ f.val.kind = "object" THEN f.val.props ELSE EmptyProps

\* C14: when fetchWithRetry gives up on page n the run ends failed; the
\* pages loaded before were startPage .. n - 1, each once, and n is the page
\* asked for; index.json is left as it is, and it holds the loaded index
\* merged with every record of those pages.
C14_FatalFetchKeepsCommits ==
  [][(pc = "fetch" /\ pc' = "failed") =>
       /\ attempt > args.retries
       /\ thrown' # NoError
       /\ page = args.startPage + Len(trail)
       /\ \A k \in 1..Len(trail) : trail[k].page = args.startPage + k - 1
       /\ disk' = disk
       /\ FileEntries(disk) = MergedEntries(PriorEntries, Observations(trail))]_vars

\* The lines a run owes the event log.
Logged(tr) ==
  LET obs == Observations(tr)
  IN [k \in 1..Len(obs) |-> Spread([observed_at |-> obs[k].ts], obs[k].job)]

IsPrefix(a, b) == Len(a) <= Len(b) /\ SubSeq(b, 1, Len(a)) = a

IsSuffix(a, b) == Len(a) <= Len(b) /\ SubSeq(b, Len(b) - Len(a) + 1, Len(b)) = a

\* C15: jobs.jsonl only grows, by lines added at its end; and when a run
\* ends by itself, stopped or failed, the file ends with one line for every
\* record of every page the run extracted, in page order and in-page order,
\* each with the time its page was observed at.
C15_EveryRecordLogged ==
  [][/\ IsPrefix(events, events')
     /\ (pc \in Running /\ pc' \in {"done", "failed"}) => IsSuffix(Logged(trail), events')]_vars

\* index.json holds an id -> record object.
ValidIndexFile(f) == f.kind = "json" /\ f.val.kind = "object"

\* C16: a run that finds an index.json that is not an id -> record object
\* starts with an index without entries, and no run dies of an error in
\* the for loop or in the snapshot.
C16_InvalidPriorIsEmpty ==
  [][/\ (pc \in Off /\ pc' = "fetch" /\ ~ ValidIndexFile(disk)) =>
            DOMAIN index'.props = {}
     /\ pc \in {"loop", "snapshot"} => pc' # "failed"]_vars

\* The field of the record that each optional part of a card feeds.
FieldOf ==
  [company |-> "company", site |-> "company_site", title |-> "job_title",
   apply |-> "apply_url", location |-> "location", experience |-> "experience",
   posted |-> "posted", logo |-> "logo", size |-> "company_size",
   funding |-> "funding_tags", what |-> "what_they_do",
   industries |-> "industries"]

\* The card lacks the part p.
Lacks(card, p) == card[p] = NoCard[p]

\* A page of one card is extracted.
OneCardStep == pc = "extract" /\ pc' = "loop" /\ Len(html) = 1

\* C17, as stated: every field of an extracted record whose source text or
\* attribute the card lacks is the empty string (the empty sequence for
\* funding_tags and industries), never an absent value and never the value
\* of another field; posted_age_days of a card without a posted text is
\* unknown.
C17_AbsentFieldsAreEmpty ==
  [][OneCardStep /\ ~ Lacks(html[1], "href") =>
       /\ Len(jobs') = 1
       /\ \A p \in DOMAIN FieldOf :
            Lacks(html[1], p) => jobs'[1][FieldOf[p]] = <<>>
       /\ Lacks(html[1], "posted") => jobs'[1].posted_age_days = Null]_vars

\* C17, amended: the same for every field but apply_url, which is the
\* record's job_url when the card has no apply button; a card without a job
\* link gives no record at all.
C17_AbsentFieldsAreEmptyButApply ==
  [][OneCardStep =>
       IF Lacks(html[1], "href") THEN jobs' = <<>>
       ELSE /\ Len(jobs') = 1
            /\ jobs'[1].id # <<>> /\ jobs'[1].job_url = jobs'[1].id
            /\ \A p \in DOMAIN FieldOf \ {"apply"} :
                 Lacks(html[1], p) => jobs'[1][FieldOf[p]] = <<>>
            /\ Lacks(html[1], "apply") => jobs'[1].apply_url = jobs'[1].job_url
            /\ Lacks(html[1], "posted") => jobs'[1].posted_age_days = Null
            /\ \A f \in DOMAIN jobs'[1] \ {"posted_age_days"} :
                 jobs'[1][f] # Undefined]_vars

\* A record was extracted from a card that has a job link, a company name
\* and nothing else.
C17_Witness ==
  /\ pc = "loop"
  /\ Len(jobs) = 1
  /\ jobs[1].company = <<"C", "o">>
  /\ jobs[1].apply_url = urlA
  /\ jobs[1].logo = <<>>
  /\ jobs[1].funding_tags = <<>>
  /\ jobs[1].posted_age_days = Null

\* t holds digits at k..a, then whitespace, then the word w.
NumberThenWord(t, k, a, w) ==
  /\ k <= a /\ a <= Len(t)
  /\ \A j \in k..a : t[j] \in Digits
  /\ \E b \in a..Len(t) :
       /\ \A j \in (a + 1)..b : t[j] \in WS
       /\ b + Len(w) <= Len(t)
       /\ \A j \in 1..Len(w) : t[b + j] = w[j]

HasNumberThenWord(t, w) ==
  \E k \in 1..Len(t), a \in 1..Len(t) : NumberThenWord(t, k, a, w)

\* The number of the leftmost "N day" of t.
DaysIn(t) ==
  LET k == CHOOSE k \in 1..Len(t) :
             /\ \E a \in 1..Len(t) : NumberThenWord(t, k, a, wDay)
             /\ \A h \in 1..(k - 1), a \in 1..Len(t) : ~ NumberThenWord(t, h, a, wDay)
      a == CHOOSE a \in 1..Len(t) : NumberThenWord(t, k, a, wDay)
  IN NumberOf(SubSeq(t, k, a))

\* The age the rules give for a normalized, lower-cased posted text.
AgeByRules(t) ==
  IF \E k \in 1..Len(t) : k + 4 <= Len(t) /\ SubSeq(t, k, k + 4) = wToday THEN 0
  ELSE IF HasNumberThenWord(t, wDay) THEN DaysIn(t)
  ELSE IF HasNumberThenWord(t, wHour) \/ HasNumberThenWord(t, wMinute) THEN 0
  ELSE Null

\* C18: the age of every extracted record is what the rules give, in their
\* order, for its normalized posted text in lower case: 0 with "today",
\* else N with "N day", else 0 with "N hour" or "N minute", else unknown
\* (the empty text included); it is unknown or not negative.
C18_AgeByOrderedRules ==
  \A k \in 1..Len(jobs) :
    /\ jobs[k].posted_age_days = AgeByRules(toLowerCase(jobs[k].posted))
    /\ jobs[k].posted = <<>> => jobs[k].posted_age_days = Null
    /\ jobs[k].posted_age_days = Null \/ jobs[k].posted_age_days >= 0

\* A text with "2 hours" before "3 day" was parsed: the day rule came first.
C18_Witness ==
  /\ pc = "loop"
  /\ Len(jobs) = 1
  /\ jobs[1].posted = <<"2", " ", "h", "o", "u", "r", "s", "3", "D", "a", "y", "s">>
  /\ jobs[1].posted_age_days = 3

\* The id of the record a card gives; empty when it gives none.
IdOfCard(c) == stableIdFromJobUrl(normalizeSpace(c.href))

\* The first card of the page, in document order, whose record has this id.
FirstCard(cards, id) ==
  CHOOSE p \in 1..Len(cards) :
    /\ IdOfCard(cards[p]) = id
    /\ \A q \in 1..(p - 1) : IdOfCard(cards[q]) # id

PageIds(cards) == {IdOfCard(cards[p]) : p \in 1..Len(cards)} \ {<<>>}

\* C19: the records returned for a page hold each id of the page exactly
\* once; the record of an id is the one of the first card with that id in
\* document order, and the records stand in the order of those cards.
C19_FirstCardWinsInOrder ==
  [][pc = "extract" /\ pc' = "loop" =>
       /\ {jobs'[k].id : k \in 1..Len(jobs')} = PageIds(html)
       /\ Len(jobs') = Cardinality(PageIds(html))
       /\ \A k \in 1..Len(jobs') :
            jobs'[k] = JobOfCard(html[FirstCard(html, jobs'[k].id)], args.baseUrl)
       /\ \A k \in 1..Len(jobs'), l \in 1..Len(jobs') :
            k < l => FirstCard(html, jobs'[k].id) < FirstCard(html, jobs'[l].id)]_vars

\* A page served posting b, then posting a, then posting a again with
\* other texts: two records came out, b before a, a with its first texts.
C19_Witness ==
  /\ pc = "loop"
  /\ html = <<cardB, cardA, cardA2>>
  /\ Len(jobs) = 2
  /\ jobs[1].id = urlB
  /\ jobs[2] = JobOfCard(cardA, args.baseUrl)
  /\ jobs[2] # JobOfCard(cardA2, args.baseUrl)

\* What a reader of delimited text gives for a line that is not one record.
Malformed == <<<<"malformed">>>>

\* s with every doubled double quote read as one.
RECURSIVE Undouble(_)
Undouble(s) ==
  IF s = <<>> THEN <<>>
  ELSE IF Head(s) = "\"" THEN <<"\"">> \o Undouble(SubSeq(s, 3, Len(s)))
  ELSE <<Head(s)>> \o Undouble(Tail(s))

Quotes(s, from, to) == Cardinality({j \in from..to : s[j] = "\""})

\* Where the quoted cell that opens s closes: at the first double quote
\* after an even number of them that is not followed by another one.
Closings(s) ==
  {p \in 2..Len(s) : /\ s[p] = "\""
                     /\ Quotes(s, 2, p - 1) % 2 = 0
                     /\ (p = Len(s) \/ s[p + 1] # "\"")}

Commas(s) == {p \in 1..Len(s) : s[p] = ","}

Least(S) == CHOOSE x \in S : \A y \in S : x <= y

\* A reader of one record of delimited text: cells are separated by commas;
\* a cell that begins with a double quote runs to the next double quote that
\* is not doubled, a doubled one standing for one quote character; outside
\* quotes a line break ends the record and a quote is an error.
RECURSIVE ParseCsvRecord(_)
ParseCsvRecord(s) ==
  IF s = <<>> THEN <<<<>>>>
  ELSE IF s[1] = "\""
    THEN IF Closings(s) = {} THEN Malformed
         ELSE LET p == Least(Closings(s))
                  cell == Undouble(SubSeq(s, 2, p - 1))
              IN IF p = Len(s) THEN <<cell>>
                 ELSE IF s[p + 1] # "," THEN Malformed
                 ELSE LET more == ParseCsvRecord(SubSeq(s, p + 2, Len(s)))
                      IN IF more = Malformed THEN Malformed ELSE <<cell>> \o more
  ELSE LET q == IF Commas(s) = {} THEN Len(s) + 1 ELSE Least(Commas(s))
           cell == SubSeq(s, 1, q - 1)
       IN IF \E j \in 1..(q - 1) : s[j] \in {"\"", "\n"} THEN Malformed
          ELSE IF q > Len(s) THEN <<cell>>
          ELSE LET more == ParseCsvRecord(SubSeq(s, q + 1, Len(s)))
               IN IF more = Malformed THEN Malformed ELSE <<cell>> \o more

\* The cells of entry r, before escaping.
CellsOf(r) == [k \in 1..Len(CsvHeader) |-> CellText(r, CsvHeader[k])]

\* C20: read back as one cell, the escaped form of every cell text is the
\* text; every line of jobs.csv reads back as as many cells as the header
\* line, and the lines read back are the entries' cells.
C20_CsvRoundTrip ==
  [][pc = "snapshot" /\ pc' = "done" =>
       /\ \A r \in Values(index) : \A k \in 1..Len(CsvHeader) :
            ParseCsvRecord(csvEscape(CellsOf(r)[k])) = <<CellsOf(r)[k]>>
       /\ Len(ParseCsvRecord(jobsCsv'.header)) = Len(CsvHeader)
       /\ \A row \in jobsCsv'.rows :
            /\ ParseCsvRecord(row) # Malformed
            /\ Len(ParseCsvRecord(row)) = Len(ParseCsvRecord(jobsCsv'.header))
       /\ {ParseCsvRecord(row) : row \in jobsCsv'.rows}
            = {CellsOf(r) : r \in Values(index)}]_vars

\* jobs.csv holds a line whose company cell reads back as a name with a
\* comma and a double quote, and whose funding cell reads back as a list.
C20_Witness ==
  /\ pc = "done"
  /\ jobsCsv.kind = "csv"
  /\ \E row \in jobsCsv.rows :
       /\ Len(ParseCsvRecord(row)) = Len(CsvHeader)
       /\ ParseCsvRecord(row)[2] = <<"a", ",", "\"">>
       /\ ParseCsvRecord(row)[12] = <<"[", "\"", "a", ",", "b", "\"", "]">>

\* The entries this run has added to the index it loaded.
NewIds == DOMAIN index.props \ DOMAIN prior.props

\* C21: the run of `node scrape.js --max-pages 1 --max-items 50` loads at
\* most one page and adds at most 50 entries to the index.
C21_SmokeRunIsLimited ==
  args = parseArgs(SmokeWords) =>
    /\ Len(trail) <= SmokeMaxPages
    /\ Cardinality(NewIds) <= SmokeMaxItems

\* The page the run is working on: the last one it loaded.
LastPage == trail[Len(trail)]

\* The for loop over the records of the last page has ended: every record
\* was handed to the event stream, in order and with the page's time, and
\* is in the index.
PageMerged ==
  /\ trail # <<>>
  /\ jobs = RecordsOf(LastPage)
  /\ i > Len(jobs)
  /\ IsSuffix(Logged(<<LastPage>>), events \o pending)
  /\ \A k \in 1..Len(jobs) : jobs[k].id \in DOMAIN index.props

\* index.json holds what the commit of the in-memory index writes.
Committed == disk = Stringify(index)

RunEnds == (pc = "snapshot" /\ pc' = "done") \/ (pc = "fetch" /\ pc' = "failed")

\* jobs.json and jobs.csv hold the entries es: one element and one row for
\* each, under the header.
SnapshotsHold(json, csv, es) ==
  /\ json.kind = "json"
  /\ json.rows = {es[id] : id \in DOMAIN es}
  /\ Cardinality(json.rows) = Cardinality(DOMAIN es)
  /\ csv.kind = "csv"
  /\ csv.header = Join([k \in 1..Len(CsvHeader) |-> <<CsvHeader[k]>>], <<",">>)
  /\ csv.rows = {CsvRow(es[id]) : id \in DOMAIN es}
  /\ Cardinality(csv.rows) = Cardinality(DOMAIN es)

\* C23: when a run ends, stopped by the policy or failed by a fetch that
\* gave up, jobs.json holds exactly the entries of index.json, one element
\* for each id, and jobs.csv one row for each id under the fixed header.
C23_SnapshotsMatchIndexAtEnd ==
  [][RunEnds => SnapshotsHold(jobsJson', jobsCsv', FileEntries(disk'))]_vars

\* The same for the runs the policy stops, whose index is an object.
SnapshotsMatchWhenStopped ==
  [][pc = "snapshot" /\ pc' = "done" /\ index.kind = "object" =>
       SnapshotsHold(jobsJson', jobsCsv', FileEntries(disk'))]_vars

\* The positions of the lines of a log that are about an id.
LinesOf(log, id) == {k \in 1..Len(log) : log[k].id = id}

\* The index entries es are what the log says: the same ids; each entry has
\* the fields of the last line of its id, that line's time as updated_at
\* and the time of the first line of its id as created_at.
EntriesFollowLog(es, log) ==
  /\ DOMAIN es = {log[k].id : k \in 1..Len(log)}
  /\ \A id \in DOMAIN es :
       LET first == log[SetMin(LinesOf(log, id))]
           last == log[SetMax(LinesOf(log, id))]
       IN /\ DOMAIN es[id] = (DOMAIN last \ {"observed_at"}) \cup {"created_at", "updated_at"}
          /\ \A f \in DOMAIN es[id] \ {"created_at", "updated_at"} : es[id][f] = last[f]
          /\ es[id].updated_at = last.observed_at
          /\ es[id].created_at = first.observed_at

\* C24: in a run that began with an empty index and an empty event log,
\* after every commit the index, in memory and in index.json, is what the
\* event log says: the same ids, for each id the fields and the time of its
\* last event, and as created_at the time of its first event.  The event
\* log is the lines appended so far, those the stream has yet to write
\* included; when the policy has ended the run they are all in jobs.jsonl.
C24_IndexFollowsEventLog ==
  [][/\ (pc = "rename" /\ pc' = "policy" /\ prior = EmptyObject) =>
          /\ FileEntries(disk') = index.props
          /\ EntriesFollowLog(FileEntries(disk'), events' \o pending')
     /\ (pc = "snapshot" /\ pc' = "done" /\ prior = EmptyObject) =>
          EntriesFollowLog(FileEntries(disk'), events')]_vars

\* The second page of the run was committed; posting a was on both pages,
\* seen at two different times, and its entry has both.
C24_Witness ==
  /\ pc = "policy"
  /\ Len(trail) = 2
  /\ prior = EmptyObject
  /\ urlA \in FileIds(disk)
  /\ disk.val.props[urlA].created_at = 2
  /\ disk.val.props[urlA].updated_at = 1
  /\ Cardinality(LinesOf(events \o pending, urlA)) = 2

\* C25: against a listing whose pages past some page give no record, with
\* fetches that end, a run in either mode and with any maxAgeDays leaves
\* its page loop: the policy stops it, fetchWithRetry gives up, or the
\* process is killed; it asks for no page past the first one without
\* records, so for none past the listing's last page but one.
C25_PageLoopEnds ==
  /\ (pc = "fetch" ~> pc \in {"snapshot"} \cup Off)
  /\ [](\A k \in 1..(Len(trail) - 1) : RecordsOf(trail[k]) # <<>>)
  /\ [](pc = "fetch" => /\ page <= LastFullPage + 1
                        /\ trail # <<>> => RecordsOf(LastPage) # <<>>)
  /\ [][(pc \in Running /\ pc' \in Off) =>
          (\/ (pc = "snapshot" /\ pc' = "done" /\ stopInfo.stop)
           \/ (pc = "fetch" /\ pc' = "failed" /\ attempt > args.retries)
           \/ pc' = "crashed")]_vars

\* A run over the whole listing in mode all: it loaded every page that can
\* hold a card, then one without records, and stopped there.
C25_Witness ==
  /\ pc = "snapshot"
  /\ args.mode = "all"
  /\ args.startPage = 1
  /\ Len(trail) = LastFullPage + 1
  /\ page = LastFullPage + 1
  /\ jobs = <<>>
  /\ stopInfo = [stop |-> TRUE, reason |-> <<"no_cards">>]

====
